---- MODULE Spec2Model ----
(***************************************************************************)
(* CPE tracker (cred-point): the verification engine of                    *)
(* src/verification_engine.py, as add_activity in src/routes.py calls it.  *)
(*                                                                         *)
(* Text is a sequence of one-character strings, so that Python's           *)
(* `word in description` is a real substring search and str.lower() a real *)
(* character map.  CPE values are in hundredths of a point (1.0 is 100):   *)
(* every rule value and every declared value of the model is a multiple of *)
(* 0.1 far from, or a multiple of 0.25 exactly on, a 50% boundary, so the  *)
(* integer comparisons agree with the float comparisons of the code.       *)
(***************************************************************************)
EXTENDS Integers, Sequences, FiniteSets, TLC

VARIABLES
    activity_data,        \* the dict passed to verify_activity
    activity_type,        \* the local activity_type of verify_activity (line 81)
    verification_result,  \* the dict verify_activity returns
    pc,                   \* "idle", "called", "returned" or "raised"
    self_cpe_rules,       \* the cpe_rules attribute of the global engine
    earlier,              \* an earlier call and its verdict, as a caller kept them
    recommendation,       \* a call of get_recommendations: its inputs and its result
    calls,                \* the verify_activity calls of concurrent callers
    cells,                \* the verification_result dicts those calls work on
    certifications,       \* the rows of table certification
    activities,           \* the rows of table cpe_activity
    upload_folder,        \* the names of the files in UPLOAD_FOLDER
    request,              \* the add_activity request being handled
    response              \* what the last request answered and read

engine_vars == <<activity_data, activity_type, verification_result, pc,
                 self_cpe_rules, earlier>>
recommend_vars == <<recommendation>>
concurrent_vars == <<calls, cells>>
route_vars == <<certifications, activities, upload_folder, request, response>>
other_vars == <<recommend_vars, concurrent_vars, route_vars>>
vars == <<engine_vars, recommend_vars, concurrent_vars, route_vars>>

----------------------------------------------------------------------------
(* Python values: a str, a number, None, or a key that is absent.          *)

Str(chars) == [kind |-> "str", chars |-> chars, num |-> 0]
Num(n) == [kind |-> "num", chars |-> <<>>, num |-> n]
None == [kind |-> "none", chars |-> <<>>, num |-> 0]
Absent == [kind |-> "absent", chars |-> <<>>, num |-> 0]

\* dict.get(key, default)
DictGet(value, default) == IF value.kind = "absent" THEN default ELSE value

\* bool(value) for the values above
Truthy(value) ==
    \/ value.kind = "str" /\ value.chars # <<>>
    \/ value.kind = "num" /\ value.num # 0

----------------------------------------------------------------------------
(* Text.                                                                   *)

UpperCase == <<"A","B","C","D","E","F","G","H","I","J","K","L","M","N","O","P","Q","R","S","T","U","V","W","X","Y","Z">>
LowerCase == <<"a","b","c","d","e","f","g","h","i","j","k","l","m","n","o","p","q","r","s","t","u","v","w","x","y","z">>

\* the lower-case letter of each upper-case letter
ToLower == [c \in { UpperCase[i] : i \in 1..Len(UpperCase) } |->
               LowerCase[CHOOSE i \in 1..Len(UpperCase) : UpperCase[i] = c]]

LowerChar(c) == IF c \in DOMAIN ToLower THEN ToLower[c] ELSE c

\* str.lower()
Lower(s) == [i \in 1..Len(s) |-> LowerChar(s[i])]

\* word in text
Contains(text, word) ==
    \E i \in 0..(Len(text) - Len(word)) :
        \A j \in 1..Len(word) : text[i + j] = word[j]

\* any(word in text for word in words)
ContainsAny(text, words) == \E k \in 1..Len(words) : Contains(text, words[k])

----------------------------------------------------------------------------
(* _classify_activity_type: the keyword lists in the order they are tried. *)

WebinarWords ==
    << <<"w","e","b","i","n","a","r">>,
       <<"s","e","m","i","n","a","r">>,
       <<"p","r","e","s","e","n","t","a","t","i","o","n">> >>
TrainingWords ==
    << <<"t","r","a","i","n","i","n","g">>,
       <<"w","o","r","k","s","h","o","p">>,
       <<"b","o","o","t","c","a","m","p">> >>
ConferenceWords ==
    << <<"c","o","n","f","e","r","e","n","c","e">>,
       <<"s","y","m","p","o","s","i","u","m">>,
       <<"s","u","m","m","i","t">> >>
CourseWords ==
    << <<"c","o","u","r","s","e">>,
       <<"c","l","a","s","s">>,
       <<"c","u","r","r","i","c","u","l","u","m">> >>
CertificationWords ==
    << <<"c","e","r","t","i","f","i","c","a","t","i","o","n">>,
       <<"e","x","a","m">>,
       <<"t","e","s","t">> >>
VolunteerWords ==
    << <<"v","o","l","u","n","t","e","e","r">>,
       <<"c","o","m","m","u","n","i","t","y">>,
       <<"m","e","n","t","o","r">> >>

\* mutant: the final else returns the form's catch-all type
DefaultActivityType_Other == "other"

DefaultActivityType == "self-study"

\* mutant: the training keywords are tried before the webinar keywords
ClassifyActivityType_TrainingFirst(description) ==
    LET d == Lower(description)
    IN  IF ContainsAny(d, TrainingWords) THEN "training"
        ELSE IF ContainsAny(d, WebinarWords) THEN "webinar"
        ELSE IF ContainsAny(d, ConferenceWords) THEN "conference"
        ELSE IF ContainsAny(d, CourseWords) THEN "course"
        ELSE IF ContainsAny(d, CertificationWords) THEN "certification"
        ELSE IF ContainsAny(d, VolunteerWords) THEN "volunteer"
        ELSE DefaultActivityType

\* where in the text the first keyword of a list starts (past the end: none)
FirstHitAt(text, words) ==
    LET starts == { i \in 0..Len(text) :
                      \E k \in 1..Len(words) :
                          /\ i + Len(words[k]) <= Len(text)
                          /\ \A j \in 1..Len(words[k]) : text[i + j] = words[k][j] }
    IN  IF starts = {} THEN Len(text) + 1
        ELSE CHOOSE i \in starts : \A j \in starts : i <= j

\* mutant: the category whose keyword comes first in the text wins
ClassifyActivityType_EarliestInText(description) ==
    LET d == Lower(description)
        lists == <<WebinarWords, TrainingWords, ConferenceWords,
                   CourseWords, CertificationWords, VolunteerWords>>
        names == <<"webinar", "training", "conference",
                   "course", "certification", "volunteer">>
        hits == { c \in 1..6 : ContainsAny(d, lists[c]) }
    IN  IF hits = {} THEN DefaultActivityType
        ELSE names[CHOOSE c \in hits :
                       \A o \in hits :
                           \/ FirstHitAt(d, lists[c]) < FirstHitAt(d, lists[o])
                           \/ FirstHitAt(d, lists[c]) = FirstHitAt(d, lists[o]) /\ c <= o]

ClassifyActivityType(description) ==
    LET d == Lower(description)
    IN  IF ContainsAny(d, WebinarWords) THEN "webinar"
        ELSE IF ContainsAny(d, TrainingWords) THEN "training"
        ELSE IF ContainsAny(d, ConferenceWords) THEN "conference"
        ELSE IF ContainsAny(d, CourseWords) THEN "course"
        ELSE IF ContainsAny(d, CertificationWords) THEN "certification"
        ELSE IF ContainsAny(d, VolunteerWords) THEN "volunteer"
        ELSE DefaultActivityType

----------------------------------------------------------------------------
(* cpe_rules: one point value per (authority, activity type), in           *)
(* hundredths.  The first key is the mis-encoded literal of the source     *)
(* file (bytes 49 53 43 C3 82 C2 B2), not the 'ISC' + superscript two      *)
(* (bytes 49 53 43 C2 B2) that CertificationForm stores.                   *)

ISC2_TableKey == "ISC<C3 82 C2 B2>"
ISC2_FormChoice == "ISC<C2 B2>"

RuleRow(webinar, training, conference, selfstudy, course, certification, volunteer) ==
    ("webinar" :> webinar) @@ ("training" :> training) @@
    ("conference" :> conference) @@ ("self-study" :> selfstudy) @@
    ("course" :> course) @@ ("certification" :> certification) @@
    ("volunteer" :> volunteer)

\* mutant: the table is keyed by the authority names the form stores
cpe_rules_FormKeys ==
    (ISC2_FormChoice :> RuleRow(100, 800, 800, 100, 400, 3000, 500)) @@
    ("EC-Council" :> RuleRow(100, 2000, 2000, 200, 1000, 6000, 1000)) @@
    ("CompTIA" :> RuleRow(50, 1000, 1000, 100, 500, 3000, 500)) @@
    ("OffSec" :> RuleRow(100, 4000, 800, 200, 2000, 4000, 400))

cpe_rules ==
    (ISC2_TableKey :> RuleRow(100, 800, 800, 100, 400, 3000, 500)) @@
    ("EC-Council" :> RuleRow(100, 2000, 2000, 200, 1000, 6000, 1000)) @@
    ("CompTIA" :> RuleRow(50, 1000, 1000, 100, 500, 3000, 500)) @@
    ("Offensive Security" :> RuleRow(100, 4000, 800, 200, 2000, 4000, 400))

\* authority in self.cpe_rules and activity_type in self.cpe_rules[authority]
HasRule(authority, type) ==
    authority \in DOMAIN self_cpe_rules /\ type \in DOMAIN self_cpe_rules[authority]

\* mutant: the tolerance is half of the declared value, not of the rule's
WithinTolerance_OfDeclared(cpe_value, suggested_value) ==
    LET diff == IF cpe_value >= suggested_value
                THEN cpe_value - suggested_value
                ELSE suggested_value - cpe_value
    IN  2 * diff <= cpe_value

\* mutant: < in place of <=
WithinTolerance_Strict(cpe_value, suggested_value) ==
    LET diff == IF cpe_value >= suggested_value
                THEN cpe_value - suggested_value
                ELSE suggested_value - cpe_value
    IN  2 * diff < suggested_value

\* abs(cpe_value - suggested_value) <= suggested_value * 0.5
WithinTolerance(cpe_value, suggested_value) ==
    LET diff == IF cpe_value >= suggested_value
                THEN cpe_value - suggested_value
                ELSE suggested_value - cpe_value
    IN  2 * diff <= suggested_value

----------------------------------------------------------------------------
(* _attempt_web_verification and the four provider helpers.                *)

ProviderResult(note) ==
    [verified |-> TRUE, verification_method |-> "provider_recognition",
     verification_notes |-> <<note>>]

VerifySansActivity ==
    ProviderResult("SANS is a recognized premium cybersecurity training provider")
VerifyCourseraActivity ==
    ProviderResult("Coursera is a recognized online education platform")
VerifyUdemyActivity ==
    ProviderResult("Udemy is a recognized online learning platform")
VerifyCybraryActivity ==
    ProviderResult("Cybrary is a recognized cybersecurity training platform")

KnownProviderMethod == "known_provider"

OtherProviders ==
    << <<"p","l","u","r","a","l","s","i","g","h","t">>,
       <<"l","i","n","k","e","d","i","n"," ","l","e","a","r","n","i","n","g">>,
       <<"e","d","x">> >>

\* the names tried first, each with a helper of its own
NamedProviders ==
    << <<"s","a","n","s">>,
       <<"c","o","u","r","s","e","r","a">>,
       <<"u","d","e","m","y">>,
       <<"c","y","b","r","a","r","y">> >>

\* mutant: the names are looked for in the description as typed
AttemptWebVerification_CaseSensitive(data) ==
    LET description == DictGet(data.description, Str(<<>>)).chars
    IN  IF Contains(description, NamedProviders[1]) THEN VerifySansActivity
        ELSE IF Contains(description, NamedProviders[2]) THEN VerifyCourseraActivity
        ELSE IF Contains(description, NamedProviders[3]) THEN VerifyUdemyActivity
        ELSE IF Contains(description, NamedProviders[4]) THEN VerifyCybraryActivity
        ELSE IF ContainsAny(description, OtherProviders)
             THEN [verified |-> TRUE, verification_method |-> KnownProviderMethod,
                   verification_notes |-> <<"Recognized professional training provider">>]
        ELSE [verified |-> FALSE, verification_method |-> "manual",
              verification_notes |-> <<>>]

\* lines 134-159
AttemptWebVerification(data) ==
    LET description == Lower(DictGet(data.description, Str(<<>>)).chars)
    IN  IF Contains(description, NamedProviders[1]) THEN VerifySansActivity
        ELSE IF Contains(description, NamedProviders[2]) THEN VerifyCourseraActivity
        ELSE IF Contains(description, NamedProviders[3]) THEN VerifyUdemyActivity
        ELSE IF Contains(description, NamedProviders[4]) THEN VerifyCybraryActivity
        ELSE IF ContainsAny(description, OtherProviders)
             THEN [verified |-> TRUE, verification_method |-> KnownProviderMethod,
                   verification_notes |-> <<"Recognized professional training provider">>]
        ELSE [verified |-> FALSE, verification_method |-> "manual",
              verification_notes |-> <<>>]

----------------------------------------------------------------------------
(* _verify_proof_file: only the file name is looked at.                    *)

ProofExtensions ==
    << <<".","p","d","f">>, <<".","j","p","g">>,
       <<".","j","p","e","g">>, <<".","p","n","g">> >>

VerifyProofFile(file_path) ==
    IF file_path.kind # "str"
    THEN [valid |-> FALSE, notes |-> "File verification error"]
    ELSE IF ContainsAny(Lower(file_path.chars), ProofExtensions)
    THEN [valid |-> TRUE, notes |-> "Valid proof document uploaded"]
    ELSE [valid |-> FALSE, notes |-> "Invalid or missing proof document"]

----------------------------------------------------------------------------
(* verify_activity.  verification_notes is the sequence of the fragments   *)
(* the code concatenates; the string is empty exactly when the sequence    *)
(* is.  file_verified is "absent" while the key is not in the dict.        *)

\* mutant: the initial verdict carries the default 1.0, not the declared value
InitialResult_DefaultValue(data) ==
    [verified |-> FALSE,
     verification_method |-> "manual",
     suggested_cpe_value |-> Num(100),
     verification_notes |-> <<>>,
     authority_rules_applied |-> FALSE,
     file_verified |-> "absent"]

InitialResult(data) ==
    [verified |-> FALSE,
     verification_method |-> "manual",
     suggested_cpe_value |-> DictGet(data.cpe_value, Num(100)),
     verification_notes |-> <<>>,
     authority_rules_applied |-> FALSE,
     file_verified |-> "absent"]

\* mutant: line 86 is missing, the suggested value stays the declared one
ApplyAuthorityRules_NoSuggestion(result, authority, type, cpe_value) ==
    IF HasRule(authority, type)
    THEN LET suggested_value == self_cpe_rules[authority][type]
             applied == [result EXCEPT
                 !.authority_rules_applied = TRUE,
                 !.verification_notes = <<"Applied authority rules for activity type">>]
         IN  IF cpe_value.kind # "num"
             THEN [raised |-> TRUE, result |-> applied]
             ELSE IF WithinTolerance(cpe_value.num, suggested_value)
             THEN [raised |-> FALSE,
                   result |-> [applied EXCEPT
                       !.verified = TRUE,
                       !.verification_method = "authority_rules"]]
             ELSE [raised |-> FALSE,
                   result |-> [applied EXCEPT
                       !.verification_notes =
                           Append(@, ". User entered value, suggested value")]]
    ELSE [raised |-> FALSE, result |-> result]

\* mutant: a declared value within the tolerance is kept as the suggestion
ApplyAuthorityRules_KeepReasonable(result, authority, type, cpe_value) ==
    IF HasRule(authority, type)
    THEN LET suggested_value == self_cpe_rules[authority][type]
             applied == [result EXCEPT
                 !.suggested_cpe_value = Num(suggested_value),
                 !.authority_rules_applied = TRUE,
                 !.verification_notes = <<"Applied authority rules for activity type">>]
         IN  IF cpe_value.kind # "num"
             THEN [raised |-> TRUE, result |-> applied]
             ELSE IF WithinTolerance(cpe_value.num, suggested_value)
             THEN [raised |-> FALSE,
                   result |-> [applied EXCEPT
                       !.suggested_cpe_value = cpe_value,
                       !.verified = TRUE,
                       !.verification_method = "authority_rules"]]
             ELSE [raised |-> FALSE,
                   result |-> [applied EXCEPT
                       !.verification_notes =
                           Append(@, ". User entered value, suggested value")]]
    ELSE [raised |-> FALSE, result |-> result]

\* mutant: line 93 is missing, the method stays manual
ApplyAuthorityRules_NoMethod(result, authority, type, cpe_value) ==
    IF HasRule(authority, type)
    THEN LET suggested_value == self_cpe_rules[authority][type]
             applied == [result EXCEPT
                 !.suggested_cpe_value = Num(suggested_value),
                 !.authority_rules_applied = TRUE,
                 !.verification_notes = <<"Applied authority rules for activity type">>]
         IN  IF cpe_value.kind # "num"
             THEN [raised |-> TRUE, result |-> applied]
             ELSE IF WithinTolerance(cpe_value.num, suggested_value)
             THEN [raised |-> FALSE,
                   result |-> [applied EXCEPT !.verified = TRUE]]
             ELSE [raised |-> FALSE,
                   result |-> [applied EXCEPT
                       !.verification_notes =
                           Append(@, ". User entered value, suggested value")]]
    ELSE [raised |-> FALSE, result |-> result]

\* mutant: the rule only suggests a value, it never verifies
ApplyAuthorityRules_SuggestOnly(result, authority, type, cpe_value) ==
    IF HasRule(authority, type)
    THEN LET suggested_value == self_cpe_rules[authority][type]
             applied == [result EXCEPT
                 !.suggested_cpe_value = Num(suggested_value),
                 !.authority_rules_applied = TRUE,
                 !.verification_notes = <<"Applied authority rules for activity type">>]
         IN  IF cpe_value.kind # "num"
             THEN [raised |-> TRUE, result |-> applied]
             ELSE IF WithinTolerance(cpe_value.num, suggested_value)
             THEN [raised |-> FALSE, result |-> applied]
             ELSE [raised |-> FALSE,
                   result |-> [applied EXCEPT
                       !.verification_notes =
                           Append(@, ". User entered value, suggested value")]]
    ELSE [raised |-> FALSE, result |-> result]

\* lines 84-95; raised is TRUE when the arithmetic of line 91 throws
ApplyAuthorityRules(result, authority, type, cpe_value) ==
    IF HasRule(authority, type)
    THEN LET suggested_value == self_cpe_rules[authority][type]
             applied == [result EXCEPT
                 !.suggested_cpe_value = Num(suggested_value),
                 !.authority_rules_applied = TRUE,
                 !.verification_notes = <<"Applied authority rules for activity type">>]
         IN  IF cpe_value.kind # "num"
             THEN [raised |-> TRUE, result |-> applied]
             ELSE IF WithinTolerance(cpe_value.num, suggested_value)
             THEN [raised |-> FALSE,
                   result |-> [applied EXCEPT
                       !.verified = TRUE,
                       !.verification_method = "authority_rules"]]
             ELSE [raised |-> FALSE,
                   result |-> [applied EXCEPT
                       !.verification_notes =
                           Append(@, ". User entered value, suggested value")]]
    ELSE [raised |-> FALSE, result |-> result]

\* mutant: the provider verdict is merged only into a verdict not yet verified
MergeWebVerification_FirstWins(result, web_verification) ==
    IF web_verification.verified /\ ~result.verified
    THEN [result EXCEPT
             !.verified = web_verification.verified,
             !.verification_method = web_verification.verification_method,
             !.verification_notes = web_verification.verification_notes]
    ELSE result

\* lines 98-100: verification_result.update(web_verification) when verified
MergeWebVerification(result, web_verification) ==
    IF web_verification.verified
    THEN [result EXCEPT
             !.verified = web_verification.verified,
             !.verification_method = web_verification.verification_method,
             !.verification_notes = web_verification.verification_notes]
    ELSE result

\* mutant: a valid proof file marks the activity verified
CheckProofFile_Verifies(result, data) ==
    IF Truthy(DictGet(data.proof_file, None))
    THEN LET file_verification == VerifyProofFile(data.proof_file)
         IN  [result EXCEPT
                 !.file_verified = IF file_verification.valid THEN "true" ELSE "false",
                 !.verified = @ \/ file_verification.valid,
                 !.verification_notes = Append(@, file_verification.notes)]
    ELSE result

\* mutant: a proof file on an unverified activity sets the method document_review
CheckProofFile_DocumentReview(result, data) ==
    IF Truthy(DictGet(data.proof_file, None))
    THEN LET file_verification == VerifyProofFile(data.proof_file)
         IN  [result EXCEPT
                 !.file_verified = IF file_verification.valid THEN "true" ELSE "false",
                 !.verification_method = IF result.verified THEN @ ELSE "document_review",
                 !.verification_notes = Append(@, file_verification.notes)]
    ELSE result

\* mutant: a valid proof document restores the value the user declared
CheckProofFile_TrustsDeclared(result, data) ==
    IF Truthy(DictGet(data.proof_file, None))
    THEN LET file_verification == VerifyProofFile(data.proof_file)
             checked == [result EXCEPT
                 !.file_verified = IF file_verification.valid THEN "true" ELSE "false",
                 !.suggested_cpe_value =
                     IF file_verification.valid
                     THEN DictGet(data.cpe_value, Num(100)) ELSE @]
         IN  IF file_verification.notes # ""
             THEN [checked EXCEPT
                      !.verification_notes = Append(@, file_verification.notes)]
             ELSE checked
    ELSE result

\* lines 103-107
CheckProofFile(result, data) ==
    IF Truthy(DictGet(data.proof_file, None))
    THEN LET file_verification == VerifyProofFile(data.proof_file)
             checked == [result EXCEPT
                 !.file_verified = IF file_verification.valid THEN "true" ELSE "false"]
         IN  IF file_verification.notes # ""
             THEN [checked EXCEPT
                      !.verification_notes = Append(@, file_verification.notes)]
             ELSE checked
    ELSE result

\* line 111
ErrorResult(result) ==
    [result EXCEPT !.verification_notes = <<"Verification error">>]

\* the exception the body of the try statement ends with, "none" when it
\* runs to its end: line 76 on a description with no lower(), line 91 on a
\* cpe_value that is not a number
BodyException(data) ==
    LET description == DictGet(data.description, Str(<<>>))
    IN  IF description.kind # "str" THEN "AttributeError"
        ELSE IF ApplyAuthorityRules(
                    InitialResult(data), data.authority,
                    ClassifyActivityType(Lower(description.chars)),
                    DictGet(data.cpe_value, Num(100))).raised
        THEN "TypeError"
        ELSE "none"

\* mutant: the handler is written for one class of error only
CaughtByHandler_TypeErrorOnly(exception) == exception = "TypeError"

\* line 109: except Exception
CaughtByHandler(exception) == exception \in {"AttributeError", "TypeError"}

VerifyActivity(data) ==
    LET result0 == InitialResult(data)
        description == DictGet(data.description, Str(<<>>))
    IN  IF description.kind # "str"
        THEN ErrorResult(result0)                       \* line 76 throws
        ELSE LET type == ClassifyActivityType(Lower(description.chars))
                 ruled == ApplyAuthorityRules(result0, data.authority, type,
                                              DictGet(data.cpe_value, Num(100)))
             IN  IF ruled.raised
                 THEN ErrorResult(ruled.result)
                 ELSE CheckProofFile(
                          MergeWebVerification(ruled.result,
                                               AttemptWebVerification(data)),
                          data)

----------------------------------------------------------------------------
(* The calls of verify_activity with a well-formed activity_data: the      *)
(* description a str, cpe_value a float in the form's range [0.1, 100],    *)
(* the authority a str and proof_file None or a name as                    *)
(* save_uploaded_file returns it.  add_activity makes those of them whose  *)
(* description is not empty and whose authority is a choice of             *)
(* CertificationForm; the empty description is also what a missing key     *)
(* defaults to.  The activity_type key of the dict is never read by the    *)
(* engine and is left out.                                                 *)

MaxWords == 2

Vocabulary ==
    { <<"w","e","b","i","n","a","r">>,
      <<"T","r","a","i","n","i","n","g">>,
      <<"C","o","u","r","s","e","r","a">>,
      <<"c","o","n","t","e","s","t">>,
      <<"S","A","N","S">>,
      <<"u","d","e","m","y">>,
      <<"c","y","b","r","a","r","y">>,
      <<"p","l","u","r","a","l","s","i","g","h","t">>,
      <<"l","i","n","k","e","d","i","n">>,
      <<"l","e","a","r","n","i","n","g">>,
      <<"e","d","x">>,
      <<"n","i","s","t">>,
      <<"r","e","a","d","i","n","g">> }

RECURSIVE JoinWords(_)
JoinWords(words) ==
    IF words = <<>> THEN <<>>
    ELSE IF Len(words) = 1 THEN words[1]
    ELSE words[1] \o <<" ">> \o JoinWords(Tail(words))

Descriptions ==
    { JoinWords(words) : words \in UNION { [1..n -> Vocabulary] : n \in 0..MaxWords } }

\* the choices of CertificationForm and the keys of cpe_rules
Authorities ==
    { ISC2_FormChoice, "EC-Council", "CompTIA", "OffSec", "Other",
      ISC2_TableKey, "Offensive Security" }

\* 0.1, 0.5, 1.0, 1.5 and 100.0 points
DeclaredValues == { 10, 50, 100, 150, 10000 }

\* no upload; "cert.pdf" as saved; a name secure_filename left without extension
ProofFiles ==
    { None,
      Str(<<"c","e","r","t","_","1","a","2","b","3","c","4","d",".","p","d","f">>),
      Str(<<"p","d","f","_","1","a","2","b","3","c","4","d">>) }

ActivityInputs ==
    { [description |-> Str(d), cpe_value |-> Num(v), authority |-> a, proof_file |-> f] :
        d \in Descriptions, v \in DeclaredValues, a \in Authorities, f \in ProofFiles }

NoData ==
    [description |-> Absent, cpe_value |-> Absent, authority |-> "", proof_file |-> Absent]
NoResult == InitialResult(NoData)
NoCall == [called |-> FALSE, data |-> NoData, type |-> "unset", result |-> NoResult]

\* the callers that may be inside verify_activity at once
MaxCallers == 2
Callers == 1..MaxCallers
NoConcurrentCall == [pc |-> "idle", data |-> NoData, result |-> NoResult]

\* no add_activity request in progress, no request answered yet
NoRequest ==
    [pc |-> "idle", user_id |-> "", certification_id |-> 0, description |-> <<>>,
     cpe_value |-> 0, upload |-> FALSE, proof_filename |-> None,
     verification_result |-> NoResult]
NoResponse ==
    [endpoint |-> "none", user_id |-> "", record_id |-> 0, status |-> "none",
     sent_file |-> None, certifications |-> {}, activities |-> {}]

\* no get_recommendations call in progress
NoFetch == [outcome |-> "none", status_code |-> 0, events |-> <<>>]
NoRecommendation ==
    [pc |-> "idle", authority |-> Absent, fetch |-> NoFetch, result |-> <<>>]

Init ==
    /\ pc = "idle"
    /\ activity_data = NoData
    /\ activity_type = "unset"
    /\ verification_result = NoResult
    /\ self_cpe_rules = cpe_rules
    /\ earlier = NoCall
    /\ recommendation = NoRecommendation
    /\ calls = [c \in Callers |-> NoConcurrentCall]
    /\ cells = [c \in Callers |-> NoResult]
    /\ certifications = {}
    /\ activities = {}
    /\ upload_folder = {}
    /\ request = NoRequest
    /\ response = NoResponse

\* routes.py line 305: verification_engine.verify_activity(activity_data)
Call(data) ==
    /\ pc = "idle"
    /\ pc' = "called"
    /\ activity_data' = data
    /\ UNCHANGED <<activity_type, verification_result, self_cpe_rules, earlier>>
    /\ UNCHANGED other_vars

\* mutant: the engine remembers the user's value as the rule of the type
RulesAfterCall_LearnsDeclared(rules, data, type) ==
    IF /\ data.authority \in DOMAIN rules
       /\ type \in DOMAIN rules[data.authority]
       /\ DictGet(data.cpe_value, Num(100)).kind = "num"
    THEN [rules EXCEPT ![data.authority][type] = DictGet(data.cpe_value, Num(100)).num]
    ELSE rules

\* self.cpe_rules after a call: verify_activity and its helpers only read
\* it (lines 84 and 85), no statement assigns to it or to one of its rows
RulesAfterCall(rules, data, type) == rules

\* mutant: the lowered description is written back into the caller's dict
DataAfterCall_Normalized(data) ==
    IF data.description.kind = "str"
    THEN [data EXCEPT !.description = Str(Lower(data.description.chars))]
    ELSE data

\* the caller's dict after a call: verify_activity and its helpers only
\* call get() on it (lines 69, 76, 77, 78, 103, 104 and 138)
DataAfterCall(data) == data

\* verify_activity runs to its return statement, or to an exception that
\* its handler does not catch
Verify ==
    /\ pc = "called"
    /\ activity_type' =
           IF DictGet(activity_data.description, Str(<<>>)).kind = "str"
           THEN ClassifyActivityType(
                    Lower(DictGet(activity_data.description, Str(<<>>)).chars))
           ELSE "unset"
    /\ IF BodyException(activity_data) = "none"
          \/ CaughtByHandler(BodyException(activity_data))
       THEN /\ pc' = "returned"
            /\ verification_result' = VerifyActivity(activity_data)
       ELSE /\ pc' = "raised"
            /\ UNCHANGED verification_result
    /\ activity_data' = DataAfterCall(activity_data)
    /\ self_cpe_rules' =
           RulesAfterCall(self_cpe_rules, activity_data,
               IF DictGet(activity_data.description, Str(<<>>)).kind = "str"
               THEN ClassifyActivityType(
                        Lower(DictGet(activity_data.description, Str(<<>>)).chars))
               ELSE "unset")
    /\ UNCHANGED earlier
    /\ UNCHANGED other_vars

\* the caller is done with the verdict; the next request may come
Finish ==
    /\ pc = "returned"
    /\ pc' = "idle"
    /\ activity_data' = NoData
    /\ activity_type' = "unset"
    /\ verification_result' = NoResult
    /\ UNCHANGED <<self_cpe_rules, earlier>>
    /\ UNCHANGED other_vars

Next ==
    \/ pc = "idle" /\ \E data \in ActivityInputs : Call(data)
    \/ Verify
    \/ Finish

Spec == Init /\ [][Next]_vars

----------------------------------------------------------------------------
(* _classify_activity_type called on its own, on descriptions made of the  *)
(* keywords themselves, of words that embed one (contest, classic) or two  *)
(* (test-exam), of an upper-case spelling and of words with no keyword.    *)

KeywordLists ==
    <<WebinarWords, TrainingWords, ConferenceWords,
      CourseWords, CertificationWords, VolunteerWords>>

ClassifyVocabulary ==
    { KeywordLists[c][k] : c \in 1..Len(KeywordLists), k \in 1..3 } \cup
    { <<"W","e","b","i","n","a","r">>,
      <<"c","o","n","t","e","s","t">>,
      <<"c","l","a","s","s","i","c">>,
      <<"t","e","s","t","-","e","x","a","m">>,
      <<"r","e","a","d","i","n","g">> }

ClassifyDescriptions ==
    { JoinWords(words) :
        words \in UNION { [1..n -> ClassifyVocabulary] : n \in 0..MaxWords } }

CallClassify(description) ==
    /\ pc = "idle"
    /\ pc' = "classifying"
    /\ activity_data' = [NoData EXCEPT !.description = Str(description)]
    /\ UNCHANGED <<activity_type, verification_result, self_cpe_rules, earlier>>
    /\ UNCHANGED other_vars

Classify ==
    /\ pc = "classifying"
    /\ pc' = "classified"
    /\ activity_type' = ClassifyActivityType(activity_data.description.chars)
    /\ UNCHANGED <<activity_data, verification_result, self_cpe_rules, earlier>>
    /\ UNCHANGED other_vars

FinishClassify ==
    /\ pc = "classified"
    /\ pc' = "idle"
    /\ activity_data' = NoData
    /\ activity_type' = "unset"
    /\ UNCHANGED <<verification_result, self_cpe_rules, earlier>>
    /\ UNCHANGED other_vars

NextClassify ==
    \/ pc = "idle" /\ \E description \in ClassifyDescriptions : CallClassify(description)
    \/ Classify
    \/ FinishClassify

SpecClassify == Init /\ [][NextClassify]_vars

----------------------------------------------------------------------------
(* What the properties below speak of.                                     *)

Returned == pc = "returned"
Description == Lower(activity_data.description.chars)
Declared == activity_data.cpe_value.num
Suggested == verification_result.suggested_cpe_value.num
Verified == verification_result.verified
Method == verification_result.verification_method
Notes == verification_result.verification_notes
ProofAttached == Truthy(activity_data.proof_file)

RuleApplies == HasRule(activity_data.authority, activity_type)
RuleValue == cpe_rules[activity_data.authority][activity_type]

\* The only range the code attaches to a rule is the one line 91 accepts:
\* from half the rule's value to one and a half times it.
RuleMin == RuleValue \div 2
RuleMax == RuleValue + (RuleValue \div 2)
WithinBounds == RuleMin <= Declared /\ Declared <= RuleMax

\* the provider names the code looks for
NamesNamedProvider == ContainsAny(Description, NamedProviders)
NamesOtherProvider == ContainsAny(Description, OtherProviders)
NamesProvider == NamesNamedProvider \/ NamesOtherProvider

\* the names the specification lists beyond those: ISACA, NIST and the
\* authorities' own names ("isc" stands for the name with the superscript)
ListedOnlyProviders ==
    << <<"i","s","a","c","a">>, <<"n","i","s","t">>, <<"i","s","c">>,
       <<"e","c","-","c","o","u","n","c","i","l">>,
       <<"c","o","m","p","t","i","a">>, <<"o","f","f","s","e","c">> >>
NamesNoListedProvider ==
    ~NamesProvider /\ ~ContainsAny(Description, ListedOnlyProviders)

\* verified and method as the authority rule alone decides them
RuleVerdict ==
    IF RuleApplies /\ WithinBounds
    THEN Verified /\ Method = "authority_rules"
    ELSE ~Verified /\ Method = "manual"

----------------------------------------------------------------------------
(* C1 as stated: with a rule, the suggested value lies within the rule's   *)
(* [min, max]; a declared value below min is raised to min and one above   *)
(* max is capped to max.                                                   *)
C1_SuggestedClampedToBounds ==
    Returned /\ RuleApplies =>
        /\ RuleMin <= Suggested /\ Suggested <= RuleMax
        /\ (Declared < RuleMin => Suggested = RuleMin)
        /\ (Declared > RuleMax => Suggested = RuleMax)

(* C1 as amended: with a rule, the suggested value is the rule's single    *)
(* point value whatever the declared value; it lies within the range the   *)
(* code accepts, and a declared value outside that range is replaced by    *)
(* the rule's value, not by the nearer end of the range.                   *)
C1_SuggestedIsRuleValue ==
    Returned /\ RuleApplies =>
        /\ Suggested = RuleValue
        /\ RuleMin <= Suggested /\ Suggested <= RuleMax

C1_Witness ==
    /\ Returned /\ RuleApplies
    /\ Declared < RuleMin
    /\ Suggested = RuleValue

(* C2 as stated: with a rule and a declared value within the rule's        *)
(* bounds, the suggested value is the declared value, unchanged.           *)
C2_WithinBoundsUnchanged ==
    Returned /\ RuleApplies /\ WithinBounds => Suggested = Declared

(* C2 as amended: with a rule and a declared value within 50% of the       *)
(* rule's value, the suggested value is the rule's value (the declared     *)
(* value only when the two are equal) and the activity is verified.        *)
C2_WithinBoundsGetsRuleValue ==
    Returned /\ RuleApplies /\ WithinBounds =>
        /\ Suggested = RuleValue
        /\ (Suggested = Declared <=> Declared = RuleValue)
        /\ Verified

C2_Witness ==
    /\ Returned /\ RuleApplies /\ WithinBounds
    /\ Declared # RuleValue
    /\ Suggested # Declared

(* C3: without a rule for the (authority, category) pair, an unknown       *)
(* authority included, the suggested value is the declared value,          *)
(* whatever the description, the provider and the proof.                   *)
C3_NoRuleKeepsDeclared ==
    Returned /\ ~RuleApplies =>
        /\ Suggested = Declared
        /\ ~verification_result.authority_rules_applied

C3_Witness ==
    /\ Returned /\ ~RuleApplies
    /\ activity_data.authority = "Other"
    /\ NamesProvider /\ ProofAttached
    /\ Declared # 100
    /\ Suggested = Declared

(* C4 as stated: no proof and no recognized provider name give             *)
(* verified = false and method = manual, whatever the authority and the    *)
(* declared value.                                                         *)
C4_NoProofNoProviderIsManual ==
    Returned /\ ~ProofAttached /\ NamesNoListedProvider =>
        ~Verified /\ Method = "manual"

(* C4 as amended: no proof and no recognized provider name give            *)
(* verified = false and method = manual, unless a rule exists and the      *)
(* declared value is within 50% of the rule's value: then verified = true  *)
(* and method = authority_rules.                                           *)
C4_NoProofNoProviderFollowsRule ==
    Returned /\ ~ProofAttached /\ ~NamesProvider => RuleVerdict

C4_Witness ==
    /\ Returned /\ ~ProofAttached /\ NamesNoListedProvider
    /\ RuleApplies /\ Declared = RuleMin
    /\ Verified /\ Method = "authority_rules"

(* C5 as stated: a description with a recognized provider name gives       *)
(* verified = true and method = provider_recognition, with or without a    *)
(* proof.                                                                  *)
C5_ProviderIsProviderRecognition ==
    Returned /\ NamesProvider => Verified /\ Method = "provider_recognition"

(* C5 as amended: a description naming SANS, Coursera, Udemy or Cybrary    *)
(* gives verified = true and method = provider_recognition; one naming     *)
(* none of these but Pluralsight, LinkedIn Learning or edX gives           *)
(* verified = true and method = known_provider; both with or without a     *)
(* proof and whatever the authority rule decided.                          *)
C5_ProviderMethodByName ==
    Returned /\ NamesProvider =>
        /\ Verified
        /\ Method = IF NamesNamedProvider
                    THEN "provider_recognition" ELSE KnownProviderMethod

C5_Witness ==
    /\ Returned /\ NamesNamedProvider /\ ProofAttached
    /\ RuleApplies /\ WithinBounds
    /\ Verified /\ Method = "provider_recognition"

(* C6 as stated: a proof and no recognized provider name give              *)
(* verified = false and method = document_review.                          *)
C6_ProofNoProviderIsDocumentReview ==
    Returned /\ ProofAttached /\ NamesNoListedProvider =>
        ~Verified /\ Method = "document_review"

(* C6 as amended: a proof and no recognized provider name give the         *)
(* verdict the authority rule alone decides (verified = false and          *)
(* method = manual, or verified = true and method = authority_rules when   *)
(* the declared value is within 50% of the rule's value); the proof only   *)
(* sets file_verified and adds a note on the file.                         *)
C6_ProofNoProviderFollowsRule ==
    Returned /\ ProofAttached /\ ~NamesProvider =>
        /\ RuleVerdict
        /\ verification_result.file_verified # "absent"
        /\ Notes # <<>>
        /\ Notes[Len(Notes)] \in
               {"Valid proof document uploaded", "Invalid or missing proof document"}

C6_Witness ==
    /\ Returned /\ ProofAttached /\ NamesNoListedProvider
    /\ verification_result.file_verified = "true"
    /\ ~Verified /\ Method = "manual"

(* C7: in every verdict, verified = true implies method is not manual.     *)
C7_VerifiedIsNotManual ==
    Returned /\ Verified => Method # "manual"

C7_Witness ==
    /\ Returned /\ Verified /\ ~NamesProvider
    /\ Method = "authority_rules"

(* C8 as stated: the method of every verdict is one of manual,             *)
(* provider_recognition, document_review, keyword_analysis,                *)
(* authority_rules.                                                        *)
C8_MethodInListedSet ==
    Returned =>
        Method \in {"manual", "provider_recognition", "document_review",
                    "keyword_analysis", "authority_rules"}

(* C8 as amended: the method of every verdict is one of manual,            *)
(* provider_recognition, known_provider, authority_rules.                  *)
C8_MethodInProducedSet ==
    Returned =>
        Method \in {"manual", "provider_recognition", "known_provider",
                    "authority_rules"}

C8_Witness ==
    /\ Returned /\ ProofAttached
    /\ Method = "known_provider"

(* C9: the notes of every verdict are a non-empty string, also with no     *)
(* rule, no recognized provider and no proof.                              *)
C9_NotesNeverEmpty ==
    Returned => Notes # <<>>

(* C10: _classify_activity_type returns one of webinar, training,          *)
(* conference, course, certification, volunteer, self-study, and           *)
(* self-study for every description, the empty one included, that holds    *)
(* none of the keywords.                                                   *)
ActivityTypes ==
    {"webinar", "training", "conference", "course", "certification",
     "volunteer", "self-study"}

HoldsNoKeyword ==
    \A c \in 1..Len(KeywordLists) : ~ContainsAny(Description, KeywordLists[c])

C10_ClassifyTotalWithDefault ==
    pc = "classified" =>
        /\ activity_type \in ActivityTypes
        /\ (HoldsNoKeyword => activity_type = "self-study")

C10_Witness ==
    /\ pc = "classified"
    /\ activity_data.description.chars = <<>>
    /\ activity_type = "self-study"

----------------------------------------------------------------------------
(* The categories in the order _classify_activity_type tries them, and     *)
(* what a description holds of each.                                       *)

CategoryNames ==
    <<"webinar", "training", "conference", "course", "certification", "volunteer">>

HitCategories ==
    { c \in 1..Len(KeywordLists) : ContainsAny(Description, KeywordLists[c]) }

HitCount(c) ==
    Cardinality({ k \in 1..Len(KeywordLists[c]) :
                    Contains(Description, KeywordLists[c][k]) })

FirstHitCategory == CHOOSE c \in HitCategories : \A o \in HitCategories : c <= o

(* C11: a description that contains "webinar" is classified webinar, also  *)
(* when keywords of the categories tried later are present.                *)
C11_WebinarWins ==
    pc = "classified" /\ Contains(Description, WebinarWords[1]) =>
        activity_type = "webinar"

C11_Witness ==
    /\ pc = "classified"
    /\ Contains(Description, WebinarWords[1])
    /\ Contains(Description, TrainingWords[2])
    /\ FirstHitAt(Description, TrainingWords) < FirstHitAt(Description, WebinarWords)
    /\ activity_type = "webinar"

(* C12: the result is the first category, in the order webinar, training,  *)
(* conference, course, certification, volunteer, whose keyword list has a  *)
(* hit in the description; how many hits a category has and where its      *)
(* keywords stand in the text do not matter.                               *)
C12_FirstCategoryInOrderWins ==
    pc = "classified" /\ HitCategories # {} =>
        activity_type = CategoryNames[FirstHitCategory]

C12_Witness ==
    /\ pc = "classified"
    /\ \E later \in HitCategories :
          /\ later > FirstHitCategory
          /\ HitCount(later) > HitCount(FirstHitCategory)
          /\ FirstHitAt(Description, KeywordLists[later])
                 < FirstHitAt(Description, KeywordLists[FirstHitCategory])
    /\ activity_type = CategoryNames[FirstHitCategory]

\* ---------------------------------------------------------------------
\* Malformed activity data: verify_activity is declared over
\* Dict[str, Any], so a key may be missing or hold a value of any type.

MalformedDescriptions ==
    {Str(<<"r","e","a","d","i","n","g">>),
     Str(<<"S","A","N","S"," ","w","e","b","i","n","a","r">>),
     None, Absent, Num(5)}
MalformedValues == {Num(10), Num(100), Str(<<"a","b","c">>), None, Absent}
MalformedAuthorities == {"CompTIA", "Other", ISC2_TableKey}
MalformedProofFiles ==
    {None, Absent, Str(<<>>), Num(7),
     Str(<<"c","e","r","t","_","1","a","2","b","3","c","4","d",".","p","d","f">>)}

MalformedInputs ==
    [description : MalformedDescriptions, cpe_value : MalformedValues,
     authority : MalformedAuthorities, proof_file : MalformedProofFiles]

NextMalformed ==
    \/ pc = "idle" /\ \E data \in MalformedInputs : Call(data)
    \/ Verify
    \/ Finish

SpecMalformed == Init /\ [][NextMalformed]_vars

\* the value line 69 takes for the declared value
DeclaredValue == DictGet(activity_data.cpe_value, Num(100))

\* C13: when the body of verify_activity fails on its input, the verdict is
\* not verified, has method manual and suggests the declared value.
C13_ErrorGivesDegradedVerdict ==
    Returned /\ BodyException(activity_data) # "none"
        => /\ ~Verified
           /\ Method = "manual"
           /\ verification_result.suggested_cpe_value = DeclaredValue

\* C14: verify_activity never ends with an exception, whatever the values
\* of the dict it is given.
C14_NeverRaises == pc # "raised"

C14_Witness ==
    /\ Returned
    /\ BodyException(activity_data) # "none"
    /\ Notes = <<"Verification error">>

\* ---------------------------------------------------------------------
\* Several calls on the one engine instance, one earlier call and its
\* verdict kept for comparison with the current one.

TrainingCourse == <<"t","r","a","i","n","i","n","g"," ","c","o","u","r","s","e"," ","o","n"," ","i","n","c","i","d","e","n","t"," ","r","e","s","p","o","n","s","e">>
PersonalReading == <<"p","e","r","s","o","n","a","l"," ","r","e","a","d","i","n","g">>
UploadedPdf == Str(<<"c","e","r","t","_","1","a","2","b","3","c","4","d",".","p","d","f">>)

\* the two worked inputs, and each with a provider name added or removed
ExampleDescriptions ==
    { <<"S","A","N","S"," ">> \o TrainingCourse, TrainingCourse,
      PersonalReading, <<"p","l","u","r","a","l","s","i","g","h","t"," ">> \o PersonalReading }

\* 0.2 and 1.0 points
ExampleValues == { 20, 100 }
ExampleAuthorities == { ISC2_FormChoice, ISC2_TableKey, "CompTIA" }

ExampleInputs ==
    { [description |-> Str(d), cpe_value |-> Num(v), authority |-> a, proof_file |-> f] :
        d \in ExampleDescriptions, v \in ExampleValues,
        a \in ExampleAuthorities, f \in ProofFiles }

\* the caller is done with the verdict and keeps it, with its input, for
\* comparison with the verdicts of later calls
Remember ==
    /\ pc = "returned"
    /\ pc' = "idle"
    /\ earlier' = [called |-> TRUE, data |-> activity_data,
                   type |-> activity_type, result |-> verification_result]
    /\ activity_data' = NoData
    /\ activity_type' = "unset"
    /\ verification_result' = NoResult
    /\ UNCHANGED self_cpe_rules
    /\ UNCHANGED other_vars

NextTwoCalls ==
    \/ pc = "idle" /\ \E data \in ExampleInputs : Call(data)
    \/ Verify
    \/ Remember
    \/ Finish

SpecTwoCalls == Init /\ [][NextTwoCalls]_vars

\* C15: a call with the input of an earlier call on the same engine returns
\* the verdict the earlier call returned, whatever calls came in between.
C15_SameInputSameVerdict ==
    Returned /\ earlier.called /\ earlier.data = activity_data
        => verification_result = earlier.result

C15_Witness ==
    /\ Returned
    /\ earlier.called
    /\ earlier.data = activity_data
    /\ verification_result.authority_rules_applied
    /\ Suggested # Declared
    /\ verification_result = earlier.result

\* the first worked input: SANS training, 0.2 points declared, proof attached
Example16Input(authority) ==
    [description |-> Str(<<"S","A","N","S"," ">> \o TrainingCourse),
     cpe_value |-> Num(20), authority |-> authority, proof_file |-> UploadedPdf]

\* the notes tell of a value taken from the rule table
MentionsAdjustment ==
    \E i \in 1..Len(Notes) :
        Notes[i] \in {"Applied authority rules for activity type",
                      ". User entered value, suggested value"}
MentionsProvider ==
    \E i \in 1..Len(Notes) : Notes[i] = VerifySansActivity.verification_notes[1]

Example17Input ==
    [description |-> Str(PersonalReading), cpe_value |-> Num(100),
     authority |-> "CompTIA", proof_file |-> None]

\* C17 as stated: for the personal reading input the type is self-study, a
\* rule is found, 1.0 is suggested, and the verdict is not verified, with
\* method manual.
C17_ExampleAsStated ==
    Returned /\ activity_data = Example17Input
        => /\ activity_type = "self-study"
           /\ verification_result.authority_rules_applied
           /\ Suggested = 100
           /\ ~Verified
           /\ Method = "manual"

\* C17 as the code has it: the type is self-study, a rule is found, 1.0 is
\* suggested, and the verdict is verified, with method authority_rules.
C17_ExampleAsCoded ==
    Returned /\ activity_data = Example17Input
        => /\ activity_type = "self-study"
           /\ verification_result.authority_rules_applied
           /\ Suggested = 100
           /\ Verified
           /\ Method = "authority_rules"

C17_Witness ==
    /\ Returned
    /\ activity_data = Example17Input
    /\ RuleApplies
    /\ Declared = RuleValue
    /\ Method = "authority_rules"

\* the earlier call had the category, the authority and the declared value
\* of the current one
SameRuleInputs ==
    /\ earlier.called
    /\ earlier.type = activity_type
    /\ earlier.data.authority = activity_data.authority
    /\ earlier.data.cpe_value = activity_data.cpe_value

\* C19: two calls whose descriptions have the same category, with the same
\* authority and the same declared value, get the same suggested value,
\* whatever their proof files, provider names and verdict branches.
C19_SuggestedIgnoresProofAndProvider ==
    Returned /\ SameRuleInputs
        => verification_result.suggested_cpe_value = earlier.result.suggested_cpe_value

C19_Witness ==
    /\ Returned
    /\ SameRuleInputs
    /\ RuleApplies
    /\ Suggested # Declared
    /\ earlier.data.proof_file # activity_data.proof_file
    /\ earlier.data.description # activity_data.description
    /\ earlier.result.verification_method # Method
    /\ verification_result.suggested_cpe_value = earlier.result.suggested_cpe_value

\* C20: through any sequence of calls the engine's rule table stays the
\* table it was built with, and no call changes the dict it was given.
C20_TableAndInputUnchanged ==
    /\ [](self_cpe_rules = cpe_rules)
    /\ [][pc = "called" => activity_data' = activity_data]_vars

C20_Witness ==
    /\ Returned
    /\ earlier.called
    /\ earlier.result.authority_rules_applied
    /\ verification_result.authority_rules_applied
    /\ Contains(activity_data.description.chars, <<"S","A","N","S">>)
    /\ self_cpe_rules = cpe_rules

\* the verdict is the one of a recognized provider (lines 99 and 100 took
\* the method from _attempt_web_verification)
Recognized == Method \in {"provider_recognition", KnownProviderMethod}

\* C18 as stated: the names a description is recognized by include SANS,
\* Coursera, Udemy, Cybrary, Pluralsight, ISACA, NIST and the authorities'
\* names, so a description that contains one of them, in any letter case,
\* is recognized.
C18_ListedNamesRecognized ==
    Returned /\ (\/ NamesNamedProvider
                 \/ Contains(Description, OtherProviders[1])
                 \/ ContainsAny(Description, ListedOnlyProviders))
        => Recognized

\* C18 as the code has it: a description is recognized exactly when it
\* contains, in any letter case, one of sans, coursera, udemy, cybrary,
\* pluralsight, linkedin learning and edx.
C18_RecognizedIffCodeName == Returned => (Recognized <=> NamesProvider)

C18_Witness ==
    /\ Returned
    /\ Contains(activity_data.description.chars, <<"S","A","N","S">>)
    /\ Contains(Description, ListedOnlyProviders[2])
    /\ Recognized

\* ---------------------------------------------------------------------
\* C25: with a rule and no provider name in the description, the verdict
\* is verified with method authority_rules exactly when the declared value
\* is within 50% of the rule's value, the boundary included; otherwise it
\* is not verified, has method manual, and its notes give the entered and
\* the suggested value.
C25_ToleranceDecidesRuleVerdict ==
    Returned /\ RuleApplies /\ ~NamesProvider
        => IF RuleMin <= Declared /\ Declared <= RuleMax
           THEN Verified /\ Method = "authority_rules"
           ELSE /\ ~Verified
                /\ Method = "manual"
                /\ Len(Notes) >= 2
                /\ Notes[2] = ". User entered value, suggested value"

C25_Witness ==
    /\ Returned
    /\ RuleApplies
    /\ ~NamesProvider
    /\ Declared = RuleMax
    /\ Declared # RuleValue
    /\ Verified
    /\ Method = "authority_rules"

\* the authorities CertificationForm offers, 'Other' left out
FormAuthoritiesWithRules == {ISC2_FormChoice, "EC-Council", "CompTIA", "OffSec"}

\* C26: for every authority the form offers other than 'Other', and every
\* description, verify_activity finds a rule and applies it.
C26_FormAuthorityFindsRule ==
    Returned /\ activity_data.authority \in FormAuthoritiesWithRules
        => verification_result.authority_rules_applied

\* ---------------------------------------------------------------------
\* get_recommendations of src/recommendation_engine.py.  The one network
\* fetch (of the ISC2 page) is an input: it raises, or it answers with a
\* status code and the titles of the elements found on the page.

\* the upper-case letter of each lower-case letter
ToUpper == [c \in { LowerCase[i] : i \in 1..Len(LowerCase) } |->
               UpperCase[CHOOSE i \in 1..Len(LowerCase) : LowerCase[i] = c]]
UpperChar(c) == IF c \in DOMAIN ToUpper THEN ToUpper[c] ELSE c

\* str.upper(); the superscript two has no upper case
Upper(s) == [i \in 1..Len(s) |-> UpperChar(s[i])]

\* s[:n]
Take(s, n) == SubSeq(s, 1, IF Len(s) < n THEN Len(s) ELSE n)

Recommendation(title, source, cpe_value) ==
    [title |-> title, source |-> source, cpe_value |-> cpe_value]

EventLimit == 5
MinTitleLength == 10
TitleLimit == 100
RecommendationLimit == 10
StatusOk == 200

\* mutant: a failed fetch is not caught where it happens
GetIsc2Recommendations_NoHandler(fetch) ==
    IF fetch.outcome = "exception"
    THEN [raised |-> TRUE, recommendations |-> <<>>]
    ELSE IF fetch.status_code # StatusOk
    THEN [raised |-> FALSE, recommendations |-> <<>>]
    ELSE LET events == Take(fetch.events, EventLimit)
             kept == SelectSeq(events, LAMBDA title : Len(title) > MinTitleLength)
         IN  [raised |-> FALSE,
              recommendations |->
                  [i \in 1..Len(kept) |->
                      Recommendation(Take(kept[i], TitleLimit), ISC2_FormChoice, 100)]]

\* lines 46-77; raised tells whether an exception leaves the helper
GetIsc2Recommendations(fetch) ==
    IF fetch.outcome = "exception"
    THEN [raised |-> FALSE, recommendations |-> <<>>]
    ELSE IF fetch.status_code # StatusOk
    THEN [raised |-> FALSE, recommendations |-> <<>>]
    ELSE LET events == Take(fetch.events, EventLimit)
             kept == SelectSeq(events, LAMBDA title : Len(title) > MinTitleLength)
         IN  [raised |-> FALSE,
              recommendations |->
                  [i \in 1..Len(kept) |->
                      Recommendation(Take(kept[i], TitleLimit), ISC2_FormChoice, 100)]]

GetEccouncilRecommendations ==
    << Recommendation(<<"E","C","-","C","o","u","n","c","i","l"," ","C","y","b","e","r"," ","A","c","e","s"," ","T","r","a","i","n","i","n","g">>,
                      "EC-Council", 4000),
       Recommendation(<<"E","C","-","C","o","u","n","c","i","l"," ","S","e","c","u","r","i","t","y"," ","E","v","e","n","t","s">>,
                      "EC-Council", 800) >>
GetComptiaRecommendations ==
    << Recommendation(<<"C","o","m","p","T","I","A"," ","S","e","c","u","r","i","t","y","+"," ","S","t","u","d","y"," ","G","r","o","u","p","s">>,
                      "CompTIA", 200),
       Recommendation(<<"C","o","m","p","T","I","A"," ","I","T"," ","F","u","n","d","a","m","e","n","t","a","l","s"," ","W","e","b","i","n","a","r","s">>,
                      "CompTIA", 100) >>
GetOffsecRecommendations ==
    << Recommendation(<<"O","f","f","S","e","c"," ","L","i","v","e"," ","T","r","a","i","n","i","n","g"," ","E","v","e","n","t","s">>,
                      "Offensive Security", 800),
       Recommendation(<<"O","S","C","P"," ","P","r","a","c","t","i","c","e"," ","L","a","b","s">>,
                      "Offensive Security", 400) >>
GetGeneralSecurityRecommendations ==
    << Recommendation(<<"S","A","N","S"," ","S","e","c","u","r","i","t","y"," ","T","r","a","i","n","i","n","g">>,
                      "SANS", 3200),
       Recommendation(<<"N","I","S","T"," ","C","y","b","e","r","s","e","c","u","r","i","t","y"," ","F","r","a","m","e","w","o","r","k"," ","W","e","b","i","n","a","r","s">>,
                      "NIST", 100),
       Recommendation(<<"I","S","A","C","A"," ","C","y","b","e","r","s","e","c","u","r","i","t","y"," ","N","e","x","u","s">>,
                      "ISACA", 800),
       Recommendation(<<"D","E","F"," ","C","O","N"," ","S","e","c","u","r","i","t","y"," ","C","o","n","f","e","r","e","n","c","e">>,
                      "DEF CON", 1600) >>
GetFallbackRecommendations ==
    << Recommendation(<<"C","y","b","e","r","s","e","c","u","r","i","t","y"," ","P","r","o","f","e","s","s","i","o","n","a","l"," ","D","e","v","e","l","o","p","m","e","n","t">>,
                      "General", 100),
       Recommendation(<<"I","n","d","u","s","t","r","y"," ","S","e","c","u","r","i","t","y"," ","W","e","b","i","n","a","r","s">>,
                      "General", 100) >>

\* the authority names of lines 27-33, as written there
ISC2_Upper == <<"I","S","C","<C2 B2>">>
ECCOUNCIL_Upper == <<"E","C","-","C","O","U","N","C","I","L">>
COMPTIA_Upper == <<"C","O","M","P","T","I","A">>
OFFSEC_Upper == <<"O","F","F","E","N","S","I","V","E"," ","S","E","C","U","R","I","T","Y">>

\* lines 22-44
GetRecommendations(authority, fetch) ==
    LET specific ==
            IF authority.kind # "str"
            THEN [raised |-> TRUE, recommendations |-> <<>>]     \* no upper()
            ELSE IF Upper(authority.chars) = ISC2_Upper
            THEN GetIsc2Recommendations(fetch)
            ELSE IF Upper(authority.chars) = ECCOUNCIL_Upper
            THEN [raised |-> FALSE, recommendations |-> GetEccouncilRecommendations]
            ELSE IF Upper(authority.chars) = COMPTIA_Upper
            THEN [raised |-> FALSE, recommendations |-> GetComptiaRecommendations]
            ELSE IF Upper(authority.chars) = OFFSEC_Upper
            THEN [raised |-> FALSE, recommendations |-> GetOffsecRecommendations]
            ELSE [raised |-> FALSE, recommendations |-> <<>>]
        recommendations ==
            IF specific.raised
            THEN GetFallbackRecommendations
            ELSE specific.recommendations \o GetGeneralSecurityRecommendations
    IN  Take(recommendations, RecommendationLimit)

MaxEvents == 6

EventTitles ==
    { <<"W","e","b","i","n","a","r","s">>,
      <<"S","e","c","u","r","e"," ","W","e","b","i","n","a","r"," ","S","e","r","i","e","s">> }

RecommendationAuthorities ==
    { Str(<<"I","S","C","<C2 B2>">>), Str(<<"i","s","c","<C2 B2>">>),
      Str(<<"E","C","-","C","o","u","n","c","i","l">>), Str(<<"c","o","m","p","t","i","a">>),
      Str(<<"O","f","f","S","e","c">>), Str(<<"O","f","f","e","n","s","i","v","e"," ","S","e","c","u","r","i","t","y">>),
      Str(<<"O","t","h","e","r">>), Str(<<>>), None, Num(7) }

Fetches ==
    { [outcome |-> "exception", status_code |-> 0, events |-> <<>>],
      [outcome |-> "response", status_code |-> 404, events |-> <<>>] }
    \cup { [outcome |-> "response", status_code |-> StatusOk, events |-> events] :
             events \in UNION { [1..n -> EventTitles] : n \in 0..MaxEvents } }

CallRecommendations(authority, fetch) ==
    /\ recommendation.pc = "idle"
    /\ recommendation' = [pc |-> "called", authority |-> authority,
                          fetch |-> fetch, result |-> <<>>]
    /\ UNCHANGED <<engine_vars, concurrent_vars, route_vars>>

\* get_recommendations runs to its return statement
Recommend ==
    /\ recommendation.pc = "called"
    /\ recommendation' =
           [recommendation EXCEPT
               !.pc = "returned",
               !.result = GetRecommendations(recommendation.authority,
                                             recommendation.fetch)]
    /\ UNCHANGED <<engine_vars, concurrent_vars, route_vars>>

FinishRecommendations ==
    /\ recommendation.pc = "returned"
    /\ recommendation' = NoRecommendation
    /\ UNCHANGED <<engine_vars, concurrent_vars, route_vars>>

NextRecommend ==
    \/ recommendation.pc = "idle" /\
           \E authority \in RecommendationAuthorities, fetch \in Fetches :
               CallRecommendations(authority, fetch)
    \/ Recommend
    \/ FinishRecommendations

SpecRecommend == Init /\ [][NextRecommend]_vars

\* the fetch of the ISC2 page was made and failed
FetchFailed ==
    /\ recommendation.authority.kind = "str"
    /\ Upper(recommendation.authority.chars) = ISC2_Upper
    /\ \/ recommendation.fetch.outcome = "exception"
       \/ recommendation.fetch.status_code # StatusOk

ResultCell_OnEngine(caller) == 1

\* line 66: verification_result is a local name, bound to a new dict
ResultCell(caller) == caller

ConcurrentInputs ==
    { [description |-> d, cpe_value |-> Num(100), authority |-> a, proof_file |-> f] :
        d \in {Str(<<"S","A","N","S"," ">> \o TrainingCourse), Str(PersonalReading), None},
        a \in {ISC2_FormChoice, "CompTIA"},
        f \in {None, UploadedPdf} }

ConcurrentCall(caller, data) ==
    /\ calls[caller].pc = "idle"
    /\ calls' = [calls EXCEPT ![caller] = [pc |-> "called", data |-> data,
                                          result |-> NoResult]]
    /\ UNCHANGED <<cells, engine_vars, recommend_vars, route_vars>>

\* lines 66-72
StepInitial(caller) ==
    /\ calls[caller].pc = "called"
    /\ cells' = [cells EXCEPT ![ResultCell(caller)] = InitialResult(calls[caller].data)]
    /\ calls' = [calls EXCEPT ![caller].pc = "initial"]
    /\ UNCHANGED <<engine_vars, recommend_vars, route_vars>>

\* lines 76-95, and the handler of lines 109-111 when one of them throws
StepRules(caller) ==
    /\ calls[caller].pc = "initial"
    /\ LET data == calls[caller].data
           cell == ResultCell(caller)
           description == DictGet(data.description, Str(<<>>))
       IN  IF description.kind # "str"
           THEN /\ cells' = [cells EXCEPT ![cell] = ErrorResult(cells[cell])]
                /\ calls' = [calls EXCEPT ![caller].pc = "checked"]
           ELSE LET ruled == ApplyAuthorityRules(
                                 cells[cell], data.authority,
                                 ClassifyActivityType(Lower(description.chars)),
                                 DictGet(data.cpe_value, Num(100)))
                IN  IF ruled.raised
                    THEN /\ cells' = [cells EXCEPT ![cell] = ErrorResult(ruled.result)]
                         /\ calls' = [calls EXCEPT ![caller].pc = "checked"]
                    ELSE /\ cells' = [cells EXCEPT ![cell] = ruled.result]
                         /\ calls' = [calls EXCEPT ![caller].pc = "ruled"]
    /\ UNCHANGED <<engine_vars, recommend_vars, route_vars>>

\* lines 98-100
StepWeb(caller) ==
    /\ calls[caller].pc = "ruled"
    /\ cells' = [cells EXCEPT ![ResultCell(caller)] =
                    MergeWebVerification(@, AttemptWebVerification(calls[caller].data))]
    /\ calls' = [calls EXCEPT ![caller].pc = "merged"]
    /\ UNCHANGED <<engine_vars, recommend_vars, route_vars>>

\* lines 103-107
StepProof(caller) ==
    /\ calls[caller].pc = "merged"
    /\ cells' = [cells EXCEPT ![ResultCell(caller)] = CheckProofFile(@, calls[caller].data)]
    /\ calls' = [calls EXCEPT ![caller].pc = "checked"]
    /\ UNCHANGED <<engine_vars, recommend_vars, route_vars>>

\* line 113
StepReturn(caller) ==
    /\ calls[caller].pc = "checked"
    /\ calls' = [calls EXCEPT ![caller].pc = "returned",
                              ![caller].result = cells[ResultCell(caller)]]
    /\ UNCHANGED <<cells, engine_vars, recommend_vars, route_vars>>

\* the caller has used the verdict; its dict is garbage
ConcurrentFinish(caller) ==
    /\ calls[caller].pc = "returned"
    /\ calls' = [calls EXCEPT ![caller] = NoConcurrentCall]
    /\ cells' = [cells EXCEPT ![caller] = NoResult]
    /\ UNCHANGED <<engine_vars, recommend_vars, route_vars>>

NextConcurrent ==
    \E caller \in Callers :
        \/ calls[caller].pc = "idle" /\
               \E data \in ConcurrentInputs : ConcurrentCall(caller, data)
        \/ StepInitial(caller)
        \/ StepRules(caller)
        \/ StepWeb(caller)
        \/ StepProof(caller)
        \/ StepReturn(caller)
        \/ ConcurrentFinish(caller)

SpecConcurrent == Init /\ [][NextConcurrent]_vars

\* C22: a call that ran interleaved with other calls returns the verdict
\* the same call returns when it runs alone.
C22_InterleavedCallsAsAlone ==
    \A caller \in Callers :
        calls[caller].pc = "returned"
            => calls[caller].result = VerifyActivity(calls[caller].data)

\* a call returned a verdict after another call, with another input and
\* another verdict, had started, and while that call is in its middle
C22_Witness ==
    \E caller \in Callers, other \in Callers :
        /\ caller # other
        /\ calls[caller].pc = "returned"
        /\ calls[other].pc \in {"ruled", "merged"}
        /\ calls[other].data # calls[caller].data
        /\ cells[ResultCell(other)] # calls[caller].result
        /\ calls[caller].result.verified
        /\ calls[caller].result = VerifyActivity(calls[caller].data)

\* ---------------------------------------------------------------------
\* The routes of src/routes.py over the tables of src/models.py and the
\* upload folder.  Requests are handled one at a time; add_activity is in
\* steps (validated, upload saved, verified, committed), the other
\* handlers are one step each.  A row is a record; a new row takes an id
\* no row of its table has.  The field activity_data of an activity row
\* is not a column: it is the dict add_activity passed to verify_activity
\* for it, kept to state what the columns were computed from.

Users == {"alice", "bob"}
MaxCertifications == 2
MaxActivities == 1
CertificationIds == 1..MaxCertifications
ActivityIds == 1..MaxActivities

\* the id of a new row: one more than the largest id of the table
\* (an INTEGER PRIMARY KEY of the sqlite database of app.py line 24)
NextId(rows) ==
    IF rows = {} THEN 1
    ELSE 1 + (CHOOSE id \in { row.id : row \in rows } :
                  \A row \in rows : row.id <= id)

\* what a user enters in CertificationForm: a name and one of the authorities
CertificationChoices ==
    { [name |-> "CISSP", authority |-> ISC2_FormChoice],
      [name |-> "Security+", authority |-> "CompTIA"] }
RouteDescriptions == { PersonalReading }
\* 1.5 points: within 50% of the CompTIA self-study rule and not equal to it
RouteValues == {150}

\* save_uploaded_file: secure name, "_", eight hex digits of a new uuid, extension
Digits == <<"1","2","3","4","5","6","7","8","9">>
UniqueFilename(k) == <<"c","e","r","t","_">> \o <<Digits[k]>> \o <<".","p","d","f">>
UploadNames == { UniqueFilename(k) : k \in 1..MaxActivities }

\* mutant: rows are looked up by id alone
OwnedBy_Anyone(row, user) == TRUE

\* filter_by(..., user_id=current_user.id)
OwnedBy(row, user) == row.user_id = user

Response(endpoint, user, record_id, status) ==
    [endpoint |-> endpoint, user_id |-> user, record_id |-> record_id,
     status |-> status, sent_file |-> None, certifications |-> {}, activities |-> {}]

\* lines 164-196
AddCertification(user, name, authority) ==
    /\ request.pc = "idle"
    /\ IF \E existing \in certifications :
              /\ existing.name = name
              /\ existing.authority = authority
              /\ existing.user_id = user
       THEN /\ response' = Response("add_certification", user, 0, "duplicate")
            /\ UNCHANGED certifications
       ELSE /\ NextId(certifications) \in CertificationIds
            /\ certifications' = certifications \cup
                   {[id |-> NextId(certifications), name |-> name,
                     authority |-> authority, user_id |-> user]}
            /\ response' = Response("add_certification", user,
                                    NextId(certifications), "added")
    /\ UNCHANGED <<activities, upload_folder, request>>
    /\ UNCHANGED <<engine_vars, recommend_vars, concurrent_vars>>

\* lines 198-215
EditCertification(user, cert_id, name, authority) ==
    /\ request.pc = "idle"
    /\ IF \E row \in certifications : row.id = cert_id /\ OwnedBy(row, user)
       THEN /\ certifications' =
                   { IF row.id = cert_id
                     THEN [row EXCEPT !.name = name, !.authority = authority]
                     ELSE row : row \in certifications }
            /\ response' = Response("edit_certification", user, cert_id, "updated")
       ELSE /\ response' = Response("edit_certification", user, cert_id, "not_found")
            /\ UNCHANGED certifications
    /\ UNCHANGED <<activities, upload_folder, request>>
    /\ UNCHANGED <<engine_vars, recommend_vars, concurrent_vars>>

\* lines 217-227, with the cascade of models.py line 30
DeleteCertification(user, cert_id) ==
    /\ request.pc = "idle"
    /\ IF \E row \in certifications : row.id = cert_id /\ OwnedBy(row, user)
       THEN /\ certifications' = { row \in certifications : row.id # cert_id }
            /\ activities' = { row \in activities : row.certification_id # cert_id }
            /\ response' = Response("delete_certification", user, cert_id, "deleted")
       ELSE /\ response' = Response("delete_certification", user, cert_id, "not_found")
            /\ UNCHANGED <<certifications, activities>>
    /\ UNCHANGED <<upload_folder, request>>
    /\ UNCHANGED <<engine_vars, recommend_vars, concurrent_vars>>

\* lines 256-284: the form validates; certification_id is one of the
\* user's own certifications (lines 261-262)
AddActivity_Validate(user, cert_id, description, cpe_value, upload) ==
    /\ request.pc = "idle"
    /\ \E row \in certifications : row.id = cert_id /\ row.user_id = user
    /\ NextId(activities) \in ActivityIds
    /\ upload => UploadNames \ upload_folder # {}
    /\ request' = [pc |-> "validated", user_id |-> user, certification_id |-> cert_id,
                   description |-> description, cpe_value |-> cpe_value,
                   upload |-> upload, proof_filename |-> None,
                   verification_result |-> NoResult]
    /\ response' = NoResponse
    /\ UNCHANGED <<certifications, activities, upload_folder>>
    /\ UNCHANGED <<engine_vars, recommend_vars, concurrent_vars>>

\* lines 286-293 and save_uploaded_file
AddActivity_SaveUpload ==
    /\ request.pc = "validated"
    /\ IF request.upload
       THEN \E name \in UploadNames \ upload_folder :
              /\ upload_folder' = upload_folder \cup {name}
              /\ request' = [request EXCEPT !.pc = "uploaded",
                                            !.proof_filename = Str(name)]
       ELSE /\ request' = [request EXCEPT !.pc = "uploaded"]
            /\ UNCHANGED upload_folder
    /\ UNCHANGED <<certifications, activities, response>>
    /\ UNCHANGED <<engine_vars, recommend_vars, concurrent_vars>>

\* lines 296-302
RequestActivityData(req) ==
    [description |-> Str(req.description),
     cpe_value |-> Num(req.cpe_value),
     authority |-> (CHOOSE row \in certifications :
                        row.id = req.certification_id).authority,
     proof_file |-> req.proof_filename]

\* line 305
AddActivity_Verify ==
    /\ request.pc = "uploaded"
    /\ request' = [request EXCEPT
                      !.pc = "verified",
                      !.verification_result = VerifyActivity(RequestActivityData(request))]
    /\ UNCHANGED <<certifications, activities, upload_folder, response>>
    /\ UNCHANGED <<engine_vars, recommend_vars, concurrent_vars>>

\* mutant: the row keeps the value the user entered
NewActivity_EnteredValue(id, req) ==
    [id |-> id,
     description |-> req.description,
     cpe_value |-> req.cpe_value,
     certification_id |-> req.certification_id,
     proof_file |-> req.proof_filename,
     user_id |-> req.user_id,
     verified |-> req.verification_result.verified,
     verification_method |-> req.verification_result.verification_method,
     verification_notes |-> req.verification_result.verification_notes,
     verification_date |-> IF req.verification_result.verified THEN "utcnow" ELSE "none",
     activity_data |-> RequestActivityData(req)]

\* lines 307-320
NewActivity(id, req) ==
    [id |-> id,
     description |-> req.description,
     cpe_value |-> req.verification_result.suggested_cpe_value.num,
     certification_id |-> req.certification_id,
     proof_file |-> req.proof_filename,
     user_id |-> req.user_id,
     verified |-> req.verification_result.verified,
     verification_method |-> req.verification_result.verification_method,
     verification_notes |-> req.verification_result.verification_notes,
     verification_date |-> IF req.verification_result.verified THEN "utcnow" ELSE "none",
     activity_data |-> RequestActivityData(req)]

\* mutant: an activity that was not verified is turned away
AddActivity_Commit_VerifiedOnly ==
    /\ request.pc = "verified"
    /\ IF request.verification_result.verified
       THEN /\ activities' = activities \cup {NewActivity(NextId(activities), request)}
            /\ response' = Response("add_activity", request.user_id,
                                    NextId(activities), "stored")
       ELSE /\ response' = Response("add_activity", request.user_id, 0, "rejected")
            /\ UNCHANGED activities
    /\ request' = NoRequest
    /\ UNCHANGED <<certifications, upload_folder>>
    /\ UNCHANGED <<engine_vars, recommend_vars, concurrent_vars>>

\* lines 307-336
AddActivity_Commit ==
    /\ request.pc = "verified"
    /\ activities' = activities \cup {NewActivity(NextId(activities), request)}
    /\ response' = Response("add_activity", request.user_id,
                            NextId(activities), "stored")
    /\ request' = NoRequest
    /\ UNCHANGED <<certifications, upload_folder>>
    /\ UNCHANGED <<engine_vars, recommend_vars, concurrent_vars>>

\* lines 340-356
DeleteActivity(user, activity_id) ==
    /\ request.pc = "idle"
    /\ IF \E row \in activities : row.id = activity_id /\ OwnedBy(row, user)
       THEN LET activity == CHOOSE row \in activities : row.id = activity_id
            IN  /\ upload_folder' =
                       IF Truthy(activity.proof_file)
                       THEN upload_folder \ {activity.proof_file.chars}
                       ELSE upload_folder
                /\ activities' = activities \ {activity}
                /\ response' = Response("delete_activity", user, activity_id, "deleted")
       ELSE /\ response' = Response("delete_activity", user, activity_id, "not_found")
            /\ UNCHANGED <<activities, upload_folder>>
    /\ UNCHANGED <<certifications, request>>
    /\ UNCHANGED <<engine_vars, recommend_vars, concurrent_vars>>

\* lines 358-362
UploadedFile(user, filename) ==
    /\ request.pc = "idle"
    /\ response' =
           IF filename \in upload_folder
           THEN [Response("uploaded_file", user, 0, "ok") EXCEPT
                    !.sent_file = Str(filename)]
           ELSE Response("uploaded_file", user, 0, "not_found")
    /\ UNCHANGED <<certifications, activities, upload_folder, request>>
    /\ UNCHANGED <<engine_vars, recommend_vars, concurrent_vars>>

\* lines 364-406
ExportSingleActivityPdf(user, activity_id) ==
    /\ request.pc = "idle"
    /\ response' =
           IF \E row \in activities : row.id = activity_id /\ OwnedBy(row, user)
           THEN LET activity == CHOOSE row \in activities : row.id = activity_id
                IN  [Response("export_single_activity_pdf", user, activity_id, "ok") EXCEPT
                        !.activities = {activity},
                        !.certifications =
                            { row \in certifications :
                                row.id = activity.certification_id }]
           ELSE Response("export_single_activity_pdf", user, activity_id, "not_found")
    /\ UNCHANGED <<certifications, activities, upload_folder, request>>
    /\ UNCHANGED <<engine_vars, recommend_vars, concurrent_vars>>

\* lines 453-476, and lines 408-451 which read the same rows
ExportCertification(user, cert_id) ==
    /\ request.pc = "idle"
    /\ response' =
           IF \E row \in certifications : row.id = cert_id /\ OwnedBy(row, user)
           THEN [Response("export_certification", user, cert_id, "ok") EXCEPT
                    !.certifications = { row \in certifications : row.id = cert_id },
                    !.activities =
                        { row \in activities : row.certification_id = cert_id }]
           ELSE Response("export_certification", user, cert_id, "not_found")
    /\ UNCHANGED <<certifications, activities, upload_folder, request>>
    /\ UNCHANGED <<engine_vars, recommend_vars, concurrent_vars>>

\* the requests that write rows or files
NextRecords ==
    \/ request.pc = "idle" /\
           \E user \in Users, form \in CertificationChoices :
               AddCertification(user, form.name, form.authority)
    \/ request.pc = "idle" /\
           \E user \in Users, cert_id \in CertificationIds, form \in CertificationChoices :
               EditCertification(user, cert_id, form.name, form.authority)
    \/ request.pc = "idle" /\
           \E user \in Users, cert_id \in CertificationIds :
               DeleteCertification(user, cert_id)
    \/ request.pc = "idle" /\
           \E user \in Users, cert_id \in CertificationIds,
              description \in RouteDescriptions, cpe_value \in RouteValues,
              upload \in BOOLEAN :
               AddActivity_Validate(user, cert_id, description, cpe_value, upload)
    \/ AddActivity_SaveUpload
    \/ AddActivity_Verify
    \/ AddActivity_Commit
    \/ request.pc = "idle" /\
           \E user \in Users, activity_id \in ActivityIds :
               DeleteActivity(user, activity_id)

SpecRecords == Init /\ [][NextRecords]_vars

\* a request handler, once started, runs to its end
SpecRecordsFair ==
    /\ SpecRecords
    /\ WF_vars(AddActivity_SaveUpload)
    /\ WF_vars(AddActivity_Verify)
    /\ WF_vars(AddActivity_Commit)

\* those requests and the ones that only read
NextRoutes ==
    \/ NextRecords
    \/ request.pc = "idle" /\
           \E user \in Users, filename \in UploadNames : UploadedFile(user, filename)
    \/ request.pc = "idle" /\
           \E user \in Users, activity_id \in ActivityIds :
               ExportSingleActivityPdf(user, activity_id)
    \/ request.pc = "idle" /\
           \E user \in Users, cert_id \in CertificationIds :
               ExportCertification(user, cert_id)

SpecRoutes == Init /\ [][NextRoutes]_vars

\* the last request was an add_activity that stored its row
ActivityStored ==
    /\ response.endpoint = "add_activity"
    /\ response.status = "stored"
    /\ \E row \in activities : row.id = response.record_id

\* C21: a valid add_activity submission leads to a stored activity row,
\* whatever the verdict of verify_activity, and the columns taken from the
\* form are stored as submitted.
C21_ValidSubmissionStored ==
    /\ (request.pc = "validated") ~> ActivityStored
    /\ [][request.pc = "verified" =>
            /\ activities' # activities
            /\ \A row \in activities' \ activities :
                  /\ row.description = request.description
                  /\ row.certification_id = request.certification_id
                  /\ row.user_id = request.user_id
                  /\ row.proof_file = request.proof_filename]_vars

C21_Witness ==
    /\ ActivityStored
    /\ \E row \in activities :
          /\ row.id = response.record_id
          /\ ~row.verified
          /\ row.verification_method = "manual"
          /\ ~HasRule(row.activity_data.authority, "self-study")

\* C23: no user has two certifications with the same name and authority.
C23_NoDuplicateCertifications ==
    \A one \in certifications, two \in certifications :
        /\ one.user_id = two.user_id
        /\ one.name = two.name
        /\ one.authority = two.authority
        => one.id = two.id

\* C27: every stored activity has verification_date set exactly when it is
\* verified, and its cpe_value is the value suggested by the verdict for
\* the data it was added with.
C27_StoredRowFollowsVerdict ==
    \A row \in activities :
        /\ row.verification_date # "none" <=> row.verified
        /\ row.cpe_value = VerifyActivity(row.activity_data).suggested_cpe_value.num
        /\ row.verified = VerifyActivity(row.activity_data).verified

C27_Witness ==
    \E row \in activities :
        /\ row.verified
        /\ row.verification_date = "utcnow"
        /\ row.cpe_value # row.activity_data.cpe_value.num
        /\ \E cert \in certifications :
              /\ cert.id = row.certification_id
              /\ cert.authority # row.activity_data.authority

CertificationEndpoints ==
    {"edit_certification", "delete_certification", "export_certification"}
ActivityEndpoints == {"delete_activity", "export_single_activity_pdf"}

\* the request the response answers named a row of another user
NamedAnothersRow(answer, certification_rows, activity_rows) ==
    \/ /\ answer.endpoint \in CertificationEndpoints
       /\ \E row \in certification_rows :
              row.id = answer.record_id /\ row.user_id # answer.user_id
    \/ /\ answer.endpoint \in ActivityEndpoints
       /\ \E row \in activity_rows :
              row.id = answer.record_id /\ row.user_id # answer.user_id

\* C28: the rows a request reads, changes or deletes belong to the
\* requesting user, and a request that names another user's row is
\* answered not-found and changes nothing.
C28_OwnershipIsolation ==
    /\ [](\A row \in response.certifications \cup response.activities :
              row.user_id = response.user_id)
    /\ [][/\ \A row \in certifications \ certifications' :
                row.user_id = response'.user_id
          /\ \A row \in activities \ activities' :
                row.user_id = response'.user_id
          /\ NamedAnothersRow(response', certifications, activities)
                => /\ response'.status = "not_found"
                   /\ certifications' = certifications
                   /\ activities' = activities
                   /\ upload_folder' = upload_folder]_vars

C28_Witness ==
    /\ response.status = "not_found"
    /\ response.endpoint = "delete_activity"
    /\ NamedAnothersRow(response, certifications, activities)
    /\ \E row \in activities : Truthy(row.proof_file) /\ row.proof_file.chars \in upload_folder

\* C29: uploaded_file sends a file only to the user with an activity whose
\* proof_file is that file.
C29_ProofFileOnlyToOwner ==
    response.endpoint = "uploaded_file" /\ response.status = "ok"
        => \E row \in activities :
              /\ row.proof_file = response.sent_file
              /\ row.user_id = response.user_id

\* C30: between requests, every file of the upload folder is the
\* proof_file of exactly one stored activity.
C30_EveryFileReferencedOnce ==
    request.pc = "idle"
        => \A name \in upload_folder :
              Cardinality({ row \in activities : row.proof_file = Str(name) }) = 1


====
